---- MODULE Spec2Model ----
(***************************************************************************)
(* LearnMate: the request lifecycle and status-polling protocol of the     *)
(* chat page.                                                              *)
(*                                                                         *)
(* Client side (frontend/src/app/sessions/[id]/page.tsx and                *)
(* frontend/src/lib/api.ts): the sendMessageMutation flow (onMutate, the   *)
(* mutationFn with its poll loop, onSuccess, onError), resetChat, the chat *)
(* query, and the axios response interceptor.                              *)
(*                                                                         *)
(* Server side (the FastAPI backend is not part of the source tree): the   *)
(* Request Store, the Chat History Store and the Async Job Runner, as      *)
(* spec.md sections 3, 4.1 and 4.3 describe them.                          *)
(*                                                                         *)
(* One session is modelled.  Texts are sequences of characters.  Time is   *)
(* performance.now() in milliseconds, with the origin at the reading that  *)
(* sets startTime (the code reads the clock from there on, and only uses   *)
(* differences of readings).                                               *)
(***************************************************************************)
EXTENDS Integers, Sequences, FiniteSets, TLC

\* ------------------------------------------------------------------ bounds

\* Number of ChatRequest records the Request Store may hold: in the
\* specification of the whole flow, and in the specification of the server.
MaxRequests == 1
MaxServerRequests == 2

\* Number of times the user sends a message.
MaxSubmissions == 1

\* The clock readings taken when a sleep ends are multiples of the poll
\* interval, up to MaxTicks of them once a status check has returned and up
\* to MaxOutageTicks while none has; the next reading is the time limit.
MaxTicks == 5
MaxOutageTicks == 9

\* Duration of a status check that is slow to fail.
SlowCall == 31000

\* Attempts of one API call the model follows.
MaxAttempts == 3

\* Calls of useChat.submitFeedback.
MaxFeedbacks == 2

\* ------------------------------------------------------- program constants

PollInterval == 5000
MaxElapsed == 7200000
ElapsedDisplayAfter == 30000
GraceWindow == 30000
EmptyLimit == 3
RefetchDelay == 1000
InterceptorDelay == 1000

\* -------------------------------------------------------------------- text

\* What the user can type into the textarea: nothing, blanks, or a text.
Messages == {<<>>, <<" ">>, <<" ", " ">>, <<"h">>}

\* What the LLM Backend can answer: nothing, or a text.
LLMOutputs == {<<>>, <<"a">>}

IsSpace(c) == c = " "

RECURSIVE TrimStart(_)
TrimStart(s) ==
    IF s = <<>> THEN <<>>
    ELSE IF IsSpace(Head(s)) THEN TrimStart(Tail(s)) ELSE s

RECURSIVE TrimEnd(_)
TrimEnd(s) ==
    IF s = <<>> THEN <<>>
    ELSE IF IsSpace(s[Len(s)]) THEN TrimEnd(SubSeq(s, 1, Len(s) - 1)) ELSE s

\* String.prototype.trim
Trim(s) == TrimEnd(TrimStart(s))

\* The placeholder texts of the typing indicator.
Dots == <<".", ".", ".">>
Generating == <<"Generating response...">>

\* Math.round(elapsedTime / 1000), minutes and remaining seconds.
TimeDisplay(elapsed) ==
    LET sec == (elapsed + 500) \div 1000
    IN  <<"Still working (", sec \div 60, "m", sec % 60, "s)">>

\* Error messages.
TimeoutMessage == <<"Request processing exceeded maximum time limit (2 hours)">>
NetworkErrorMessage == <<"Network error - please check if the backend server is running">>
HttpErrorMessage == <<"Request failed with status code">>
NoError == <<>>
LLMUnavailable == <<"LLM unavailable">>

\* ----------------------------------------------------------------- records

NoResult == [present |-> FALSE, content |-> <<>>, message_id |-> 0]

\* A chat message, as stored by the server and as displayed by the page.
\* request_id names the ChatRequest whose unit of work stored it (0 for a
\* record the page made itself).
Message(role, content, mid, typing, rid) ==
    [role |-> role, content |-> content, message_id |-> mid,
     isTyping |-> typing, request_id |-> rid]

NoMessage == Message("none", <<>>, 0, FALSE, 0)

\* The value the mutationFn resolves with: a status result or a message of
\* the history, read through .content and .message_id.
Answer(r) == [content |-> r.content, message_id |-> r.message_id]

NoAnswer == [content |-> <<>>, message_id |-> 0]

\* chatData before the chat query has loaded.
NotLoaded == [loaded |-> FALSE, messages |-> <<>>]

VARIABLES
    \* server
    requestStore,   \* Request Store: request_id -> ChatRequest
    work,           \* Job Runner: request_id -> the unit of work's position
    history,        \* Chat History Store of the session
    \* page state (useState, useQuery, useMutation)
    chatMessage, chatHistory, isTyping, chatError,
    chatData, chatStale, typingTimer,
    mutationStatus, data, error,
    \* mutationFn: position and locals
    pc, message, retry, submitResponse, requestId, now, startTime,
    elapsedTime, isComplete, result, lastPollTime,
    consecutiveEmptyResponses, statusResponse,
    \* observation: clock reading at the first of the status checks that
    \* failed in a row (-1 when the last status check returned)
    errorSince,
    \* observation: number of status checks in a row, up to the last one, that
    \* returned status complete with an empty or missing result
    emptyRun,
    \* observation: number of calls of sendMessageMutation.mutate
    submissions,
    \* observation: the last submission made, by the page's form or by
    \* another client of the API, was rejected
    rejected,
    \* a call through the axios instance `api` and its response interceptor
    apiCall,
    \* the last response a client of the API got from get_status or get_history
    lookup,
    \* the useChat store, its submitFeedback call in flight, and the feedback
    \* attached to the messages of the Chat History Store
    chat, feedbackCall, feedbackStore

serverVars == <<requestStore, work, history>>
pageVars == <<chatMessage, chatHistory, isTyping, chatError, chatData,
              chatStale, typingTimer, mutationStatus, data, error>>
fnVars == <<pc, message, retry, submitResponse, requestId, now, startTime,
            elapsedTime, isComplete, result, lastPollTime,
            consecutiveEmptyResponses, statusResponse, errorSince, emptyRun>>
apiVars == <<apiCall, lookup, chat, feedbackCall, feedbackStore>>
vars == <<serverVars, pageVars, fnVars, submissions, rejected, apiVars>>

\* ------------------------------------------------------------------ server

NonTerminal == {"pending", "processing"}
Terminal == {"complete", "error"}

\* submit validates that the message is non-empty.
Accepts(m) == m # <<>>

NewRequest(m) ==
    [submitted_message |-> m, status |-> "pending", result |-> NoResult,
     error_detail |-> <<>>]

\* completed (observation): while the unit of work has set its status to
\* complete and not yet appended its message, its place among the units of
\* work in that position, in the order in which they set the status; 0
\* otherwise.
NewWork == [phase |-> "scheduled", answer |-> <<>>, message_id |-> 0,
            completed |-> 0]

\* The units of work that have set their status to complete and not yet
\* appended their message.
Unappended == {r \in DOMAIN work : work[r].phase = "flipped"}

NextMessageId == Len(history) + 1

\* get_status that answers for an unknown id as for a request just created.
GetStatusPending(rid) ==
    IF rid \in DOMAIN requestStore
    THEN [found |-> TRUE, status |-> requestStore[rid].status,
          result |-> requestStore[rid].result,
          error_detail |-> requestStore[rid].error_detail]
    ELSE [found |-> TRUE, status |-> "pending", result |-> NoResult,
          error_detail |-> <<>>]

\* get_status(request_id): the ChatRequest as the client sees it.
GetStatus(rid) ==
    IF rid \in DOMAIN requestStore
    THEN [found |-> TRUE, status |-> requestStore[rid].status,
          result |-> requestStore[rid].result,
          error_detail |-> requestStore[rid].error_detail]
    ELSE [found |-> FALSE, status |-> "unknown", result |-> NoResult,
          error_detail |-> <<>>]

\* get_history(session_id)
GetHistory == history

NoStatus == [found |-> FALSE, status |-> "none", result |-> NoResult,
             error_detail |-> <<>>]

\* ----- Async Job Runner (spec.md 4.1)

\* submit stores a ChatRequest with status pending and schedules its unit of
\* work; the user's message is stored in the session's history.
StoreRequest(m) ==
    LET rid == Len(requestStore) + 1
    IN  /\ requestStore' = Append(requestStore, NewRequest(m))
        /\ work' = Append(work, NewWork)
        /\ history' = Append(history, Message("user", m, NextMessageId, FALSE, rid))

\* POST chat/start from the page reaches the server: the message is
\* validated, the ChatRequest is stored and the response carrying the
\* request_id is produced; an empty message gets a validation error.
Submit(cap) ==
    /\ pc = "start"
    /\ IF Accepts(message)
       THEN /\ Len(requestStore) < cap
            /\ StoreRequest(message)
            /\ submitResponse' = [ok |-> TRUE, request_id |-> Len(requestStore) + 1]
            /\ rejected' = FALSE
       ELSE /\ submitResponse' = [ok |-> FALSE, request_id |-> 0]
            /\ rejected' = TRUE
            /\ UNCHANGED serverVars
    /\ pc' = "started"
    /\ UNCHANGED <<pageVars, message, retry, requestId, now, startTime,
                   elapsedTime, isComplete, result, lastPollTime,
                   consecutiveEmptyResponses, statusResponse, errorSince,
                   emptyRun, submissions>>
    /\ UNCHANGED apiVars

\* POST chat/start with message m from a client of the API other than the
\* page; its response does not reach the page.
ApiSubmit(m, cap) ==
    /\ IF Accepts(m)
       THEN Len(requestStore) < cap /\ StoreRequest(m) /\ rejected' = FALSE
       ELSE rejected' = TRUE /\ UNCHANGED serverVars
    /\ UNCHANGED <<pageVars, fnVars, submissions>>
    /\ UNCHANGED apiVars

\* WorkBegin that calls the LLM without recording the start.
WorkBeginUnrecorded(rid) ==
    /\ work[rid].phase = "scheduled"
    /\ work' = [work EXCEPT ![rid].phase = "llm"]
    /\ UNCHANGED <<requestStore, history, pageVars, fnVars, submissions, rejected>>
    /\ UNCHANGED apiVars

\* The unit of work starts: pending -> processing, then the LLM call.
WorkBegin(rid) ==
    /\ work[rid].phase = "scheduled"
    /\ requestStore' = [requestStore EXCEPT ![rid].status = "processing"]
    /\ work' = [work EXCEPT ![rid].phase = "llm"]
    /\ UNCHANGED <<history, pageVars, fnVars, submissions, rejected>>
    /\ UNCHANGED apiVars

\* The LLM call returns: the status is flipped to complete.
WorkComplete(rid, answer) ==
    /\ work[rid].phase = "llm"
    /\ requestStore' = [requestStore EXCEPT ![rid].status = "complete"]
    /\ work' = [work EXCEPT ![rid].phase = "flipped", ![rid].answer = answer,
                            ![rid].completed = Cardinality(Unappended) + 1]
    /\ UNCHANGED <<history, pageVars, fnVars, submissions, rejected>>
    /\ UNCHANGED apiVars

\* WorkAppend whose write to the Chat History Store is lost.
WorkAppendLost(rid) ==
    /\ work[rid].phase = "flipped"
    /\ work' = [work EXCEPT ![rid].phase = "appended",
                            ![rid].message_id = NextMessageId]
    /\ UNCHANGED <<requestStore, history, pageVars, fnVars, submissions, rejected>>
    /\ UNCHANGED apiVars

\* WorkAppend that writes the assistant message a second time.
WorkAppendTwice(rid) ==
    /\ work[rid].phase = "flipped"
    /\ history' = history \o
           << Message("assistant", work[rid].answer, NextMessageId, FALSE, rid),
              Message("assistant", work[rid].answer, NextMessageId + 1, FALSE, rid) >>
    /\ work' = [work EXCEPT ![rid].phase = "appended",
                            ![rid].message_id = NextMessageId]
    /\ UNCHANGED <<requestStore, pageVars, fnVars, submissions, rejected>>
    /\ UNCHANGED apiVars

\* WorkAppend that puts the assistant message in front of the history.
WorkAppendInFront(rid) ==
    /\ work[rid].phase = "flipped"
    /\ history' = << Message("assistant", work[rid].answer, NextMessageId, FALSE, rid) >>
                      \o history
    /\ work' = [r \in DOMAIN work |->
                  IF r = rid
                  THEN [work[r] EXCEPT !.phase = "appended",
                                       !.message_id = NextMessageId,
                                       !.completed = 0]
                  ELSE IF work[r].completed > work[rid].completed
                  THEN [work[r] EXCEPT !.completed = @ - 1]
                  ELSE work[r]]
    /\ UNCHANGED <<requestStore, pageVars, fnVars, submissions, rejected>>
    /\ UNCHANGED apiVars

\* The assistant message is appended to the Chat History Store.
WorkAppend(rid) ==
    /\ work[rid].phase = "flipped"
    /\ history' = Append(history,
           Message("assistant", work[rid].answer, NextMessageId, FALSE, rid))
    /\ work' = [r \in DOMAIN work |->
                  IF r = rid
                  THEN [work[r] EXCEPT !.phase = "appended",
                                       !.message_id = NextMessageId,
                                       !.completed = 0]
                  ELSE IF work[r].completed > work[rid].completed
                  THEN [work[r] EXCEPT !.completed = @ - 1]
                  ELSE work[r]]
    /\ UNCHANGED <<requestStore, pageVars, fnVars, submissions, rejected>>
    /\ UNCHANGED apiVars

\* The result {content, message_id} is written to the ChatRequest.
WorkResult(rid) ==
    /\ work[rid].phase = "appended"
    /\ requestStore' = [requestStore EXCEPT ![rid].result =
           [present |-> TRUE, content |-> work[rid].answer,
            message_id |-> work[rid].message_id]]
    /\ work' = [work EXCEPT ![rid].phase = "done"]
    /\ UNCHANGED <<history, pageVars, fnVars, submissions, rejected>>
    /\ UNCHANGED apiVars

\* WorkFail that can also strike a unit of work that is done, overwriting
\* the terminal status.
WorkFailLate(rid) ==
    /\ work[rid].phase \in {"llm", "done"}
    /\ requestStore' = [requestStore EXCEPT ![rid].status = "error",
                                            ![rid].error_detail = LLMUnavailable]
    /\ work' = [work EXCEPT ![rid].phase = "failed"]
    /\ UNCHANGED <<history, pageVars, fnVars, submissions, rejected>>
    /\ UNCHANGED apiVars

\* WorkFail that reports the failure to the user as a message of the chat.
WorkFailReported(rid) ==
    /\ work[rid].phase = "llm"
    /\ requestStore' = [requestStore EXCEPT ![rid].status = "error",
                                            ![rid].error_detail = LLMUnavailable]
    /\ history' = Append(history,
           Message("assistant", LLMUnavailable, NextMessageId, FALSE, rid))
    /\ work' = [work EXCEPT ![rid].phase = "failed"]
    /\ UNCHANGED <<pageVars, fnVars, submissions, rejected>>
    /\ UNCHANGED apiVars

\* WorkFail that overwrites the status of any request that is still
\* non-terminal or has just been completed.
WorkFailAgain(rid) ==
    /\ work[rid].phase \in {"llm", "flipped"}
    /\ requestStore' = [requestStore EXCEPT ![rid].status = "error",
                                            ![rid].error_detail = LLMUnavailable]
    /\ work' = [work EXCEPT ![rid].phase = "failed"]
    /\ UNCHANGED <<history, pageVars, fnVars, submissions, rejected>>
    /\ UNCHANGED apiVars

\* The LLM call fails: status error with a human-readable error_detail,
\* nothing is appended to the history.
WorkFail(rid) ==
    /\ work[rid].phase = "llm"
    /\ requestStore' = [requestStore EXCEPT ![rid].status = "error",
                                            ![rid].error_detail = LLMUnavailable]
    /\ work' = [work EXCEPT ![rid].phase = "failed"]
    /\ UNCHANGED <<history, pageVars, fnVars, submissions, rejected>>
    /\ UNCHANGED apiVars

\* ------------------------------------------------------------ page helpers

\* The test of the typed text without the trim.
IsBlankUntrimmed(m) == m = <<>>

\* handleChatSubmit's test of the typed text.
IsBlank(m) == Trim(m) = <<>>

\* msg => !(msg.role === 'assistant' && (msg.isTyping || msg.content === '...'))
IsPlaceholder(m) == m.role = "assistant" /\ (m.isTyping \/ m.content = Dots)

\* msg => !(msg.role === 'assistant' && msg.isTyping)
IsTypingMessage(m) == m.role = "assistant" /\ m.isTyping

RemovePlaceholders(h) == SelectSeq(h, LAMBDA m : ~IsPlaceholder(m))

RemoveTyping(h) == SelectSeq(h, LAMBDA m : ~IsTypingMessage(m))

\* [...chatHistory].reverse().find(msg => msg.role === 'assistant')
LatestAssistant(h) ==
    LET idx == {i \in DOMAIN h : h[i].role = "assistant"}
    IN  IF idx = {} THEN NoMessage
        ELSE h[CHOOSE i \in idx : \A j \in idx : j <= i]

\* chatHistory.length > 0 && latestAssistantMessage && latestAssistantMessage.content
HistoryHasAnswer(h) ==
    /\ Len(h) > 0
    /\ LatestAssistant(h) # NoMessage
    /\ LatestAssistant(h).content # <<>>

\* statusResponse.result && statusResponse.result.content
HasContent(resp) == resp.result.present /\ resp.result.content # <<>>

\* checkMessageStatus: response.data.status === 'complete' && !response.data.result
NeedsRefetch(resp) == resp.status = "complete" /\ ~resp.result.present

\* The fallback taken at the third empty response only.
FallbackDueOnce(n) == n = EmptyLimit

\* The fallback taken at the first empty response.
FallbackDueAtOnce(n) == n >= 1

\* The fallback taken one response late.
FallbackDueLate(n) == n > EmptyLimit

\* consecutiveEmptyResponses >= 3
FallbackDue(n) == n >= EmptyLimit

\* performance.now() - lastPollTime > 30000
GraceExceeded(t, last) == t - last > GraceWindow

\* The loop test without its time limit.
LoopContinuesUntilDone(done, elapsed) == ~done

\* while (!isComplete && elapsedTime < 7200000)
LoopContinues(done, elapsed) == ~done /\ elapsed < MaxElapsed

\* Where the mutationFn goes when control reaches the loop test: the next
\* sleep, or past the loop to `return result` or to the timeout throw.
LoopPc(done, elapsed) ==
    IF LoopContinues(done, elapsed) THEN "sleep"
    ELSE IF done THEN "resolved" ELSE "rejected"

\* The error in flight after the loop test.
LoopError(done, elapsed, err) ==
    IF ~LoopContinues(done, elapsed) /\ ~done THEN TimeoutMessage ELSE err

\* The response interceptor's retry condition.
ErrorKinds == {"network", "http5xx", "http4xx"}

\* ShouldRetry that does not look at config._retry.
ShouldRetryAgain(kind, retried) == kind \in {"network", "timeout", "http5xx"}

ShouldRetry(kind, retried) == kind \in {"network", "timeout", "http5xx"} /\ ~retried

\* The message of the error the interceptor rejects with.
ErrorMessage(kind) ==
    IF kind = "network" THEN NetworkErrorMessage ELSE HttpErrorMessage

\* The clock as read when a sleep that began at t ends.  The timer fires
\* PollInterval after it was set or later: the reading is the first multiple
\* of PollInterval that is at least PollInterval above t, or, with a timer
\* that late, the time limit.
NextTick(t) == ((t + PollInterval + PollInterval - 1) \div PollInterval) * PollInterval

ClockSamples(t, ticks) ==
    {r \in {NextTick(t)} : r <= ticks * PollInterval} \cup {r \in {MaxElapsed} : r > t}

NetDelays == {0, SlowCall}

SettlePcs == {"resolved", "rejected"}

CallPcs == {"start", "started", "status", "statusRetry", "emptyHistory", "errorHistory"}

PollPcs == {"sleep", "status", "statusRetry", "emptyHistory", "errorHistory"}

\* isPending that also holds after a mutation that ended in error.
isPendingOrFailed == mutationStatus \in {"pending", "error"}

isPending == mutationStatus = "pending"

\* --------------------------------------------------------- page: the flow

\* The mutationFn's locals outside a running poll loop.
LocalsCleared ==
    /\ now' = 0
    /\ startTime' = 0
    /\ elapsedTime' = 0
    /\ isComplete' = FALSE
    /\ result' = NoAnswer
    /\ lastPollTime' = 0
    /\ consecutiveEmptyResponses' = 0
    /\ statusResponse' = NoStatus
    /\ submitResponse' = [ok |-> FALSE, request_id |-> 0]
    /\ retry' = FALSE
    /\ errorSince' = -1
    /\ emptyRun' = 0

\* sendMessageMutation.mutate(msg): onMutate, then the mutationFn up to its
\* first await, the POST chat/start.
Mutate(msg) ==
    /\ chatHistory' = Append(chatHistory, Message("user", chatMessage, 0, FALSE, 0))
    /\ chatMessage' = <<>>
    /\ isTyping' = TRUE
    /\ chatError' = NoError
    /\ typingTimer' = TRUE
    /\ mutationStatus' = "pending"
    /\ data' = NoAnswer
    /\ error' = NoError
    /\ message' = msg
    /\ requestId' = 0
    /\ pc' = "start"
    /\ LocalsCleared
    /\ submissions' = submissions + 1
    /\ rejected' = FALSE
    /\ UNCHANGED <<serverVars, chatData, chatStale>>
    /\ UNCHANGED apiVars

\* The textarea's onChange (disabled while the mutation is pending).
TypeMessage(m) ==
    /\ ~isPending
    /\ pc = "idle"
    /\ m # chatMessage
    /\ chatMessage' = m
    /\ UNCHANGED <<serverVars, chatHistory, isTyping, chatError, chatData,
                   chatStale, typingTimer, mutationStatus, data, error, fnVars, submissions, rejected>>
    /\ UNCHANGED apiVars

\* handleChatSubmit (send button and Enter key; both are disabled while the
\* mutation is pending).
HandleChatSubmit(cap) ==
    /\ ~isPending
    /\ pc = "idle"
    /\ submissions < cap
    /\ IF IsBlank(chatMessage)
       THEN rejected' = TRUE /\ UNCHANGED <<serverVars, pageVars, fnVars, submissions>>
       ELSE Mutate(chatMessage)
    /\ UNCHANGED apiVars

\* The 100 ms timer of onMutate.
TypingTimerFire ==
    /\ typingTimer
    /\ pc \notin SettlePcs
    /\ typingTimer' = FALSE
    /\ chatHistory' = Append(RemovePlaceholders(chatHistory),
                             Message("assistant", Dots, 0, TRUE, 0))
    /\ UNCHANGED <<serverVars, chatMessage, isTyping, chatError, chatData,
                   chatStale, mutationStatus, data, error, fnVars, submissions, rejected>>
    /\ UNCHANGED apiVars

\* StartResponse that reads the request id from a field the response does
\* not have.
StartResponseNoId ==
    /\ pc = "started"
    /\ IF submitResponse.ok
       THEN /\ requestId' = 0
            /\ now' = 0
            /\ startTime' = now'
            /\ chatHistory' = Append(RemovePlaceholders(chatHistory),
                                     Message("assistant", Generating, 0, TRUE, 0))
            /\ pc' = LoopPc(FALSE, 0)
            /\ error' = LoopError(FALSE, 0, error)
       ELSE /\ error' = HttpErrorMessage
            /\ pc' = "rejected"
            /\ UNCHANGED <<requestId, now, startTime, chatHistory>>
    /\ elapsedTime' = 0
    /\ isComplete' = FALSE
    /\ result' = NoAnswer
    /\ lastPollTime' = 0
    /\ consecutiveEmptyResponses' = 0
    /\ UNCHANGED <<serverVars, chatMessage, isTyping, chatError, chatData,
                   chatStale, typingTimer, mutationStatus, data, message, retry,
                   submitResponse, statusResponse, errorSince, emptyRun,
                   submissions, rejected>>
    /\ UNCHANGED apiVars

\* startMessageProcessing returns: the poll loop is set up and entered.
StartResponse ==
    /\ pc = "started"
    /\ IF submitResponse.ok
       THEN /\ requestId' = submitResponse.request_id
            /\ now' = 0
            /\ startTime' = now'
            /\ chatHistory' = Append(RemovePlaceholders(chatHistory),
                                     Message("assistant", Generating, 0, TRUE, 0))
            /\ pc' = LoopPc(FALSE, 0)
            /\ error' = LoopError(FALSE, 0, error)
       ELSE /\ error' = HttpErrorMessage
            /\ pc' = "rejected"
            /\ UNCHANGED <<requestId, now, startTime, chatHistory>>
    /\ elapsedTime' = 0
    /\ isComplete' = FALSE
    /\ result' = NoAnswer
    /\ lastPollTime' = 0
    /\ consecutiveEmptyResponses' = 0
    /\ UNCHANGED <<serverVars, chatMessage, isTyping, chatError, chatData,
                   chatStale, typingTimer, mutationStatus, data, message, retry,
                   submitResponse, statusResponse, errorSince, emptyRun,
                   submissions, rejected>>
    /\ UNCHANGED apiVars

\* The 5-second sleep ends with the clock at r: the clock is read, the
\* placeholder is updated and the status check is sent.
Wake(r) ==
    /\ pc = "sleep"
    /\ ~typingTimer
    /\ r \in ClockSamples(now, IF statusResponse = NoStatus
                                THEN MaxOutageTicks ELSE MaxTicks)
    /\ now' = r
    /\ elapsedTime' = now' - startTime
    /\ lastPollTime' = now'
    /\ chatHistory' =
          IF elapsedTime' > ElapsedDisplayAfter
          THEN Append(RemoveTyping(chatHistory),
                      Message("assistant", TimeDisplay(elapsedTime'), 0, TRUE, 0))
          ELSE chatHistory
    /\ retry' = FALSE
    /\ pc' = "status"
    /\ UNCHANGED <<serverVars, chatMessage, isTyping, chatError, chatData,
                   chatStale, typingTimer, mutationStatus, data, error, message,
                   submitResponse, requestId, startTime, isComplete, result,
                   consecutiveEmptyResponses, statusResponse, errorSince,
                   emptyRun, submissions, rejected>>
    /\ UNCHANGED apiVars

\* The poll loop's handling of a status response (page.tsx 122-155).
CheckStatus(resp) ==
    /\ statusResponse' = resp
    /\ errorSince' = -1
    /\ emptyRun' = IF /\ resp.status = "complete"
                      /\ (~resp.result.present \/ resp.result.content = <<>>)
                   THEN emptyRun + 1 ELSE 0
    /\ IF resp.status = "complete"
       THEN IF HasContent(resp)
            THEN /\ isComplete' = TRUE
                 /\ result' = Answer(resp.result)
                 /\ pc' = "resolved"
                 /\ UNCHANGED <<consecutiveEmptyResponses, error, retry>>
            ELSE /\ consecutiveEmptyResponses' = consecutiveEmptyResponses + 1
                 /\ IF FallbackDue(consecutiveEmptyResponses')
                    THEN /\ pc' = "emptyHistory"
                         /\ retry' = FALSE
                         /\ UNCHANGED error
                    ELSE /\ pc' = LoopPc(isComplete, elapsedTime)
                         /\ error' = LoopError(isComplete, elapsedTime, error)
                         /\ UNCHANGED retry
                 /\ UNCHANGED <<isComplete, result>>
       ELSE /\ consecutiveEmptyResponses' = 0
            /\ pc' = LoopPc(isComplete, elapsedTime)
            /\ error' = LoopError(isComplete, elapsedTime, error)
            /\ UNCHANGED <<isComplete, result, retry>>
    /\ UNCHANGED <<serverVars, chatMessage, chatHistory, isTyping, chatError,
                   chatData, chatStale, typingTimer, mutationStatus, data,
                   message, submitResponse, requestId, startTime, elapsedTime,
                   lastPollTime, submissions, rejected>>
    /\ UNCHANGED apiVars

\* checkMessageStatus: the first GET returns.  A complete status without a
\* result is fetched again after one second.
StatusReturn ==
    /\ pc = "status"
    /\ LET resp == GetStatus(requestId)
       IN  IF NeedsRefetch(resp)
           THEN /\ pc' = "statusRetry"
                /\ now' = now + RefetchDelay
                /\ retry' = FALSE
                /\ UNCHANGED <<serverVars, pageVars, message, submitResponse,
                               requestId, startTime, elapsedTime, isComplete,
                               result, lastPollTime, consecutiveEmptyResponses,
                               statusResponse, errorSince, emptyRun,
                               submissions, rejected>>
           ELSE CheckStatus(resp) /\ UNCHANGED now
    /\ UNCHANGED apiVars

\* checkMessageStatus: the second GET returns, whatever it holds.
StatusRetryReturn ==
    /\ pc = "statusRetry"
    /\ CheckStatus(GetStatus(requestId))
    /\ UNCHANGED now

\* The fallback's use of the history it read (page.tsx 139-149, 165-175).
UseHistory(h) ==
    /\ IF HistoryHasAnswer(h)
       THEN /\ isComplete' = TRUE
            /\ result' = Answer(LatestAssistant(h))
            /\ pc' = "resolved"
            /\ UNCHANGED error
       ELSE /\ pc' = LoopPc(isComplete, elapsedTime)
            /\ error' = LoopError(isComplete, elapsedTime, error)
            /\ UNCHANGED <<isComplete, result>>
    /\ UNCHANGED <<serverVars, chatMessage, chatHistory, isTyping, chatError,
                   chatData, chatStale, typingTimer, mutationStatus, data,
                   message, retry, submitResponse, requestId, now, startTime,
                   elapsedTime, lastPollTime, consecutiveEmptyResponses,
                   statusResponse, errorSince, emptyRun, submissions, rejected>>
    /\ UNCHANGED apiVars

\* getHistory returns in the empty-completion fallback.
EmptyHistoryReturn ==
    /\ pc = "emptyHistory"
    /\ UseHistory(GetHistory)

\* getHistory returns in the polling-error fallback.
ErrorHistoryReturn ==
    /\ pc = "errorHistory"
    /\ UseHistory(GetHistory)

\* ApiFail in which a 4xx answer to a status check is thrown out of the
\* poll loop.
ApiFailEndsLoop(kind, d) ==
    /\ pc \in CallPcs
    /\ kind = "http4xx" => pc # "started"
    /\ (d > 0 \/ ShouldRetry(kind, retry)) => ~typingTimer
    /\ d > 0 => pc \in {"status", "statusRetry"} /\ ~ShouldRetry(kind, retry)
    /\ LET t == IF pc \in PollPcs
                THEN now + d + (IF ShouldRetry(kind, retry) THEN InterceptorDelay ELSE 0)
                ELSE now
       IN  /\ now' = t
           /\ emptyRun' = IF pc \in {"status", "statusRetry"} /\ ~ShouldRetry(kind, retry)
                          THEN 0 ELSE emptyRun
           /\ IF ShouldRetry(kind, retry)
              THEN /\ retry' = TRUE
                   /\ pc' = IF pc = "started" THEN "start" ELSE pc
                   /\ UNCHANGED <<error, errorSince>>
              ELSE IF pc \in {"start", "started"}
              THEN /\ error' = ErrorMessage(kind)
                   /\ pc' = "rejected"
                   /\ UNCHANGED <<retry, errorSince>>
              ELSE IF pc \in {"status", "statusRetry"} /\ kind = "http4xx"
              THEN /\ error' = ErrorMessage(kind)
                   /\ pc' = "rejected"
                   /\ UNCHANGED <<retry, errorSince>>
              ELSE IF pc \in {"status", "statusRetry", "emptyHistory"}
              THEN /\ errorSince' = IF pc = "emptyHistory" \/ errorSince # -1
                                    THEN errorSince ELSE t
                   /\ IF GraceExceeded(t, lastPollTime)
                      THEN /\ pc' = "errorHistory"
                           /\ retry' = FALSE
                           /\ UNCHANGED error
                      ELSE /\ pc' = LoopPc(isComplete, elapsedTime)
                           /\ error' = LoopError(isComplete, elapsedTime, error)
                           /\ UNCHANGED retry
              ELSE /\ pc' = LoopPc(isComplete, elapsedTime)
                   /\ error' = LoopError(isComplete, elapsedTime, error)
                   /\ UNCHANGED <<retry, errorSince>>
    /\ UNCHANGED <<serverVars, chatMessage, chatHistory, isTyping, chatError,
                   chatData, chatStale, typingTimer, mutationStatus, data,
                   message, submitResponse, requestId, startTime, elapsedTime,
                   isComplete, result, lastPollTime, consecutiveEmptyResponses,
                   statusResponse, submissions, rejected>>
    /\ UNCHANGED apiVars

\* An API call in flight fails after d ms.  The response interceptor re-sends
\* it once, one second later, after a network error or a 5xx response;
\* otherwise the error is thrown to the caller: out of the mutationFn for the
\* POST, into the poll loop's catch blocks for the status and history calls.
ApiFail(kind, d) ==
    /\ pc \in CallPcs
    /\ kind = "http4xx" => pc # "started"
    /\ (d > 0 \/ ShouldRetry(kind, retry)) => ~typingTimer
    /\ d > 0 => pc \in {"status", "statusRetry"} /\ ~ShouldRetry(kind, retry)
    /\ LET t == IF pc \in PollPcs
                THEN now + d + (IF ShouldRetry(kind, retry) THEN InterceptorDelay ELSE 0)
                ELSE now
       IN  /\ now' = t
           /\ emptyRun' = IF pc \in {"status", "statusRetry"} /\ ~ShouldRetry(kind, retry)
                          THEN 0 ELSE emptyRun
           /\ IF ShouldRetry(kind, retry)
              THEN /\ retry' = TRUE
                   /\ pc' = IF pc = "started" THEN "start" ELSE pc
                   /\ UNCHANGED <<error, errorSince>>
              ELSE IF pc \in {"start", "started"}
              THEN /\ error' = ErrorMessage(kind)
                   /\ pc' = "rejected"
                   /\ UNCHANGED <<retry, errorSince>>
              ELSE IF pc \in {"status", "statusRetry", "emptyHistory"}
              THEN /\ errorSince' = IF pc = "emptyHistory" \/ errorSince # -1
                                    THEN errorSince ELSE t
                   /\ IF GraceExceeded(t, lastPollTime)
                      THEN /\ pc' = "errorHistory"
                           /\ retry' = FALSE
                           /\ UNCHANGED error
                      ELSE /\ pc' = LoopPc(isComplete, elapsedTime)
                           /\ error' = LoopError(isComplete, elapsedTime, error)
                           /\ UNCHANGED retry
              ELSE /\ pc' = LoopPc(isComplete, elapsedTime)
                   /\ error' = LoopError(isComplete, elapsedTime, error)
                   /\ UNCHANGED <<retry, errorSince>>
    /\ UNCHANGED <<serverVars, chatMessage, chatHistory, isTyping, chatError,
                   chatData, chatStale, typingTimer, mutationStatus, data,
                   message, submitResponse, requestId, startTime, elapsedTime,
                   isComplete, result, lastPollTime, consecutiveEmptyResponses,
                   statusResponse, submissions, rejected>>
    /\ UNCHANGED apiVars

\* sendMessageMutation.onSuccess(data)
OnSuccess ==
    /\ pc = "resolved"
    /\ chatHistory' = Append(RemovePlaceholders(chatHistory),
                             Message("assistant", result.content,
                                     result.message_id, FALSE, 0))
    /\ chatStale' = TRUE
    /\ isTyping' = FALSE
    /\ mutationStatus' = "success"
    /\ data' = result
    /\ pc' = "idle"
    /\ LocalsCleared
    /\ UNCHANGED <<serverVars, chatMessage, chatError, chatData, typingTimer,
                   error, message, requestId, submissions, rejected>>
    /\ UNCHANGED apiVars

\* sendMessageMutation.onError(error)
OnError ==
    /\ pc = "rejected"
    /\ chatError' = IF error # <<>> THEN error ELSE <<"Failed to send message">>
    /\ isTyping' = FALSE
    /\ chatHistory' = RemovePlaceholders(chatHistory)
    /\ mutationStatus' = "error"
    /\ pc' = "idle"
    /\ LocalsCleared
    /\ UNCHANGED <<serverVars, chatMessage, chatData, chatStale, typingTimer,
                   data, error, message, requestId, submissions, rejected>>
    /\ UNCHANGED apiVars

\* resetChat that also cancels the request being polled.
ResetChatCancelling ==
    /\ chatError # NoError \/ isTyping
    /\ pc \notin SettlePcs
    /\ isTyping' = FALSE
    /\ chatError' = NoError
    /\ chatStale' = TRUE
    /\ chatHistory' = RemovePlaceholders(chatHistory)
    /\ IF requestId \in DOMAIN requestStore /\ requestStore[requestId].status \in NonTerminal
       THEN /\ requestStore' = [requestStore EXCEPT ![requestId].status = "error",
                                                    ![requestId].error_detail = <<"cancelled">>]
            /\ work' = [work EXCEPT ![requestId].phase = "failed"]
       ELSE UNCHANGED <<requestStore, work>>
    /\ UNCHANGED <<history, chatMessage, chatData, typingTimer,
                   mutationStatus, data, error, fnVars, submissions, rejected>>
    /\ UNCHANGED apiVars

\* resetChat, from the "Reset Chat" and "Reset UI if stuck" buttons.
ResetChat ==
    /\ chatError # NoError \/ isTyping
    /\ pc \notin SettlePcs
    /\ isTyping' = FALSE
    /\ chatError' = NoError
    /\ chatStale' = TRUE
    /\ chatHistory' = RemovePlaceholders(chatHistory)
    /\ UNCHANGED <<serverVars, chatMessage, chatData, typingTimer,
                   mutationStatus, data, error, fnVars, submissions, rejected>>
    /\ UNCHANGED apiVars

\* The "Dismiss" button of the error banner.
DismissError ==
    /\ chatError # NoError
    /\ pc \notin SettlePcs
    /\ chatError' = NoError
    /\ UNCHANGED <<serverVars, chatMessage, chatHistory, isTyping, chatData,
                   chatStale, typingTimer, mutationStatus, data, error, fnVars, submissions, rejected>>
    /\ UNCHANGED apiVars

\* The chat query fetches the history; the effect on chatData copies it to
\* chatHistory when the fetched data differs from the data held.
ChatFetch ==
    /\ chatStale
    /\ pc \notin SettlePcs
    /\ chatStale' = FALSE
    /\ LET fetched == [loaded |-> TRUE, messages |-> GetHistory]
       IN  IF fetched # chatData
           THEN chatData' = fetched /\ chatHistory' = fetched.messages
           ELSE UNCHANGED <<chatData, chatHistory>>
    /\ UNCHANGED <<serverVars, chatMessage, isTyping, chatError, typingTimer,
                   mutationStatus, data, error, fnVars, submissions, rejected>>
    /\ UNCHANGED apiVars

\* The text by which renderChatMessage recognises an answer that reports the
\* LLM Backend unreachable, and the message the retry button sends.
OllamaError == <<"Cannot connect to Ollama server">>
RetryMessage == <<"Hello, can you help me with my studies?">>

\* message.content.includes('Cannot connect to Ollama server')
HasOllamaError(m) ==
    /\ m.role = "assistant"
    /\ Len(m.content) = Len(OllamaError)
    /\ m.content = OllamaError

\* handleRetryRequest, from the "Retry Connection" button that every
\* displayed answer with the Ollama error carries: the button is not
\* disabled while the mutation is pending, and mutate() starts a new
\* mutation whose onMutate shows the textarea's text.  The variables of the
\* flow follow the mutation started last; the mutationFn of a mutation that
\* was pending goes on in the browser and is not followed further.
HandleRetryRequest(cap) ==
    /\ \E i \in DOMAIN chatHistory : HasOllamaError(chatHistory[i])
    /\ pc \notin SettlePcs
    /\ submissions < cap
    /\ chatHistory' = Append(RemoveTyping(chatHistory),
                             Message("user", chatMessage, 0, FALSE, 0))
    /\ chatStale' = TRUE
    /\ chatMessage' = <<>>
    /\ isTyping' = TRUE
    /\ chatError' = NoError
    /\ typingTimer' = TRUE
    /\ mutationStatus' = "pending"
    /\ data' = NoAnswer
    /\ error' = NoError
    /\ message' = RetryMessage
    /\ requestId' = 0
    /\ pc' = "start"
    /\ LocalsCleared
    /\ submissions' = submissions + 1
    /\ rejected' = FALSE
    /\ UNCHANGED <<serverVars, chatData>>
    /\ UNCHANGED apiVars

\* ------------------------------------------- api: the response interceptor

\* Request URLs as their path segments.
AuthMeUrl == <<"api", "v1", "auth", "me">>
ChatStartUrl == <<"api", "v1", "sessions", "s", "chat", "start">>
ChatUrl == <<"api", "v1", "sessions", "s", "chat">>
Urls == {AuthMeUrl, ChatStartUrl, ChatUrl}

\* config.url.includes('/auth/me')
IncludesAuthMe(url) ==
    \E i \in 1..(Len(url) - 1) : url[i] = "auth" /\ url[i + 1] = "me"

\* The ways an attempt fails: no response (network error), no response in
\* time (ECONNABORTED), a 5xx response, a 4xx response.
FailureKinds == ErrorKinds \cup {"timeout"}

NoCall == [state |-> "none", url |-> <<>>, _retry |-> FALSE, attempts |-> 0,
           failed |-> "none"]

\* The interceptor's retry condition for a request to url.
RetriesCall(kind, retried, url) == ShouldRetry(kind, retried) /\ ~IncludesAuthMe(url)

\* api(config): a caller sends a request.
ApiRequest(url) ==
    /\ apiCall.state \in {"none", "resolved", "rejected"}
    /\ apiCall' = [state |-> "inflight", url |-> url, _retry |-> FALSE,
                   attempts |-> 1, failed |-> "none"]
    /\ UNCHANGED <<serverVars, pageVars, fnVars, submissions, rejected,
                   lookup, chat, feedbackCall, feedbackStore>>

\* The attempt in flight gets a 2xx response.
ApiRespond ==
    /\ apiCall.state = "inflight"
    /\ apiCall' = [apiCall EXCEPT !.state = "resolved"]
    /\ UNCHANGED <<serverVars, pageVars, fnVars, submissions, rejected,
                   lookup, chat, feedbackCall, feedbackStore>>

\* The attempt in flight fails: the interceptor's error handler marks the
\* config and waits a second to re-send, or rejects.
ApiReject(kind) ==
    /\ apiCall.state = "inflight"
    /\ IF RetriesCall(kind, apiCall._retry, apiCall.url)
       THEN apiCall' = [apiCall EXCEPT !.state = "retrying", !._retry = TRUE,
                                       !.failed = kind]
       ELSE apiCall' = [apiCall EXCEPT !.state = "rejected", !.failed = kind]
    /\ UNCHANGED <<serverVars, pageVars, fnVars, submissions, rejected,
                   lookup, chat, feedbackCall, feedbackStore>>

\* The interceptor's one-second wait ends: api(config) sends the request
\* again.
ApiResend ==
    /\ apiCall.state = "retrying"
    /\ apiCall.attempts < MaxAttempts
    /\ apiCall' = [apiCall EXCEPT !.state = "inflight",
                                   !.attempts = apiCall.attempts + 1]
    /\ UNCHANGED <<serverVars, pageVars, fnVars, submissions, rejected,
                   lookup, chat, feedbackCall, feedbackStore>>

\* ------------------------------------------------ api: status and history

NoLookup == [call |-> "none", request_id |-> 0, response |-> NoStatus,
             messages |-> <<>>]

\* GET chat/status/{request_id} from a client of the API.
ApiGetStatus(rid) ==
    /\ lookup' = [call |-> "status", request_id |-> rid,
                  response |-> GetStatus(rid), messages |-> <<>>]
    /\ UNCHANGED <<serverVars, pageVars, fnVars, submissions, rejected,
                   apiCall, chat, feedbackCall, feedbackStore>>

\* GET chat from a client of the API.
ApiGetHistory ==
    /\ lookup' = [call |-> "history", request_id |-> 0, response |-> NoStatus,
                  messages |-> GetHistory]
    /\ UNCHANGED <<serverVars, pageVars, fnVars, submissions, rejected,
                   apiCall, chat, feedbackCall, feedbackStore>>

\* ------------------------------------------------ useChat: submitFeedback

NoFeedback == [present |-> FALSE, is_positive |-> FALSE, comment |-> <<>>]

Feedback(isPositive, comment) ==
    [present |-> TRUE, is_positive |-> isPositive, comment |-> comment]

\* The feedbacks submitted: a positive one with a comment and a negative one
\* without (the comment is optional: <<>> stands for none).
Feedbacks == {Feedback(TRUE, <<"c">>), Feedback(FALSE, <<>>)}

\* The messages of the Chat History Store carry a message_id and no id.
NoId == 0

\* The feedback attached to the message mid in the Chat History Store.
FeedbackOf(mid) ==
    IF mid \in DOMAIN feedbackStore THEN feedbackStore[mid] ELSE NoFeedback

\* A message of the history as get_history returns it to the store.
ChatMessage(m) ==
    [id |-> NoId, message_id |-> m.message_id, role |-> m.role,
     content |-> m.content, timestamp |-> m.message_id,
     feedback |-> FeedbackOf(m.message_id)]

NoFeedbackCall == [state |-> "none", messageId |-> 0, isPositive |-> FALSE,
                   comment |-> <<>>, count |-> 0]

\* A condition that takes every message for the one the feedback is for.
MatchesAny(msg, messageId) == TRUE

\* The condition of the map in useChat.submitFeedback.
Matches(msg, messageId) == msg.id = messageId \/ msg.message_id = messageId

\* useChat.fetchHistory, with a history call that returns.
FetchHistory ==
    /\ chat' = [chat EXCEPT !.messages = [i \in DOMAIN history |-> ChatMessage(history[i])],
                            !.isLoading = FALSE,
                            !.error = NoError]
    /\ UNCHANGED <<serverVars, pageVars, fnVars, submissions, rejected,
                   apiCall, lookup, feedbackCall, feedbackStore>>

\* useChat.submitFeedback up to its await: the POST is sent.
SubmitFeedback(messageId, isPositive, comment) ==
    /\ feedbackCall.state = "none"
    /\ feedbackCall.count < MaxFeedbacks
    /\ chat' = [chat EXCEPT !.isSendingFeedback = TRUE, !.error = NoError]
    /\ feedbackCall' = [state |-> "sent", messageId |-> messageId,
                        isPositive |-> isPositive, comment |-> comment,
                        count |-> feedbackCall.count + 1]
    /\ UNCHANGED <<serverVars, pageVars, fnVars, submissions, rejected,
                   apiCall, lookup, feedbackStore>>

\* POST chat/{message_id}/feedback reaches the server: the feedback is
\* attached to the message, or the answer is NotFound.
FeedbackAttach ==
    /\ feedbackCall.state = "sent"
    /\ IF \E i \in DOMAIN history : history[i].message_id = feedbackCall.messageId
       THEN /\ feedbackStore' =
                  [mid \in DOMAIN feedbackStore \cup {feedbackCall.messageId} |->
                      IF mid = feedbackCall.messageId
                      THEN Feedback(feedbackCall.isPositive, feedbackCall.comment)
                      ELSE feedbackStore[mid]]
            /\ feedbackCall' = [feedbackCall EXCEPT !.state = "ok"]
       ELSE /\ feedbackCall' = [feedbackCall EXCEPT !.state = "notfound"]
            /\ UNCHANGED feedbackStore
    /\ UNCHANGED <<serverVars, pageVars, fnVars, submissions, rejected,
                   apiCall, lookup, chat>>

\* The server's answer arrives: the store's messages are mapped, or the
\* error is recorded; then the finally block.
FeedbackReturn ==
    /\ feedbackCall.state \in {"ok", "notfound"}
    /\ IF feedbackCall.state = "ok"
       THEN chat' = [chat EXCEPT
                !.messages = [i \in DOMAIN chat.messages |->
                    IF Matches(chat.messages[i], feedbackCall.messageId)
                    THEN [chat.messages[i] EXCEPT
                            !.feedback = Feedback(feedbackCall.isPositive,
                                                  feedbackCall.comment)]
                    ELSE chat.messages[i]],
                !.isSendingFeedback = FALSE]
       ELSE chat' = [chat EXCEPT !.error = HttpErrorMessage,
                                 !.isSendingFeedback = FALSE]
    /\ feedbackCall' = [feedbackCall EXCEPT !.state = "none"]
    /\ UNCHANGED <<serverVars, pageVars, fnVars, submissions, rejected,
                   apiCall, lookup, feedbackStore>>

\* The POST fails without an answer of the server reaching the store: the
\* request or its response is lost.
FeedbackFail ==
    /\ feedbackCall.state \in {"sent", "ok", "notfound"}
    /\ chat' = [chat EXCEPT !.error = NetworkErrorMessage,
                            !.isSendingFeedback = FALSE]
    /\ feedbackCall' = [feedbackCall EXCEPT !.state = "none"]
    /\ UNCHANGED <<serverVars, pageVars, fnVars, submissions, rejected,
                   apiCall, lookup, feedbackStore>>

\* ---------------------------------------------------------- specification

Init ==
    /\ requestStore = <<>>
    /\ work = <<>>
    /\ history = <<>>
    /\ chatMessage = <<>>
    /\ chatHistory = <<>>
    /\ isTyping = FALSE
    /\ chatError = NoError
    /\ chatData = NotLoaded
    /\ chatStale = TRUE
    /\ typingTimer = FALSE
    /\ mutationStatus = "idle"
    /\ data = NoAnswer
    /\ error = NoError
    /\ pc = "idle"
    /\ message = <<>>
    /\ retry = FALSE
    /\ submitResponse = [ok |-> FALSE, request_id |-> 0]
    /\ requestId = 0
    /\ now = 0
    /\ startTime = 0
    /\ elapsedTime = 0
    /\ isComplete = FALSE
    /\ result = NoAnswer
    /\ lastPollTime = 0
    /\ consecutiveEmptyResponses = 0
    /\ statusResponse = NoStatus
    /\ errorSince = -1
    /\ emptyRun = 0
    /\ submissions = 0
    /\ rejected = FALSE
    /\ apiCall = NoCall
    /\ lookup = NoLookup
    /\ chat = [messages |-> <<>>, isLoading |-> FALSE, error |-> NoError,
               isSendingFeedback |-> FALSE]
    /\ feedbackCall = NoFeedbackCall
    /\ feedbackStore = <<>>

\* The units of work of the Job Runner.
ServerWork ==
    \E rid \in DOMAIN requestStore :
        \/ WorkBegin(rid)
        \/ \E answer \in LLMOutputs : WorkComplete(rid, answer)
        \/ WorkAppend(rid)
        \/ WorkResult(rid)
        \/ WorkFail(rid)

\* The send-message flow of the page.
FlowNext ==
    \/ \E m \in Messages : TypeMessage(m)
    \/ HandleChatSubmit(MaxSubmissions)
    \/ TypingTimerFire
    \/ StartResponse
    \/ \E r \in {k * PollInterval : k \in 1..MaxOutageTicks} \cup {MaxElapsed} : Wake(r)
    \/ StatusReturn
    \/ StatusRetryReturn
    \/ EmptyHistoryReturn
    \/ ErrorHistoryReturn
    \/ \E kind \in ErrorKinds, d \in NetDelays : ApiFail(kind, d)
    \/ OnSuccess
    \/ OnError

\* The page's other controls and its chat query.
PageNext ==
    \/ ResetChat
    \/ DismissError
    \/ ChatFetch

\* The send-message flow against the server.
Next == Submit(MaxRequests) \/ ServerWork \/ FlowNext

Spec == Init /\ [][Next]_vars

\* The same with the page's other controls.
PageSpecNext == Next \/ PageNext

SpecPage == Init /\ [][PageSpecNext]_vars

\* The server under submissions whose responses do not reach the page: the
\* page's POST fails, is re-sent once by the interceptor, and fails again;
\* other clients call the endpoint directly.
SubmitterNext ==
    \/ \E m \in Messages : TypeMessage(m)
    \/ HandleChatSubmit(MaxSubmissions)
    \/ TypingTimerFire
    \/ \E kind \in ErrorKinds : ApiFail(kind, 0)
    \/ OnError

ServerNext ==
    \/ Submit(MaxServerRequests)
    \/ \E m \in {<<>>, <<"h">>} : ApiSubmit(m, MaxServerRequests)
    \/ ServerWork
    \/ SubmitterNext

SpecServer == Init /\ [][ServerNext]_vars

\* A unit of work that has flipped the status goes on to append its message:
\* the Job Runner does not stop while an append is due.
WorkFairness == WF_vars(\E rid \in DOMAIN work : WorkAppend(rid))

SpecServerFair == SpecServer /\ WorkFairness

\* The session under a page that sends again after a flow has ended: every
\* POST of the page is stored or lost on its way, and its response is lost.
ResubmitterNext ==
    \/ \E m \in Messages : TypeMessage(m)
    \/ HandleChatSubmit(MaxServerRequests)
    \/ TypingTimerFire
    \/ \E kind \in ErrorKinds : ApiFail(kind, 0)
    \/ OnError

SessionNext == Submit(MaxServerRequests) \/ ServerWork \/ ResubmitterNext

SpecSession == Init /\ [][SessionNext]_vars

\* The page with a server that answers every call: the send-message flow
\* without failing API calls, with the page's other controls.
ReliableFlowNext ==
    \/ \E m \in Messages : TypeMessage(m)
    \/ HandleChatSubmit(MaxSubmissions)
    \/ TypingTimerFire
    \/ StartResponse
    \/ \E r \in {k * PollInterval : k \in 1..MaxTicks} \cup {MaxElapsed} : Wake(r)
    \/ StatusReturn
    \/ StatusRetryReturn
    \/ EmptyHistoryReturn
    \/ OnSuccess
    \/ OnError

ControlsNext == Submit(MaxRequests) \/ ServerWork \/ ReliableFlowNext \/ PageNext

SpecControls == Init /\ [][ControlsNext]_vars

\* The page's controls around a flow whose POST is stored or lost on its way
\* and whose response is lost.
ResetNext == Submit(MaxRequests) \/ ServerWork \/ SubmitterNext \/ PageNext

SpecReset == Init /\ [][ResetNext]_vars

\* Clients of the API: calls through the axios instance, status and history
\* queries, submissions, against the Job Runner.
ApiNext ==
    \/ ApiSubmit(<<"h">>, MaxRequests)
    \/ ServerWork
    \/ \E url \in Urls : ApiRequest(url)
    \/ ApiRespond
    \/ \E kind \in FailureKinds : ApiReject(kind)
    \/ ApiResend
    \/ \E rid \in 1..(MaxRequests + 1) : ApiGetStatus(rid)
    \/ ApiGetHistory

SpecApi == Init /\ [][ApiNext]_vars

\* The useChat store against the Job Runner and the Chat History Store.
FeedbackNext ==
    \/ ApiSubmit(<<"h">>, MaxRequests)
    \/ ServerWork
    \/ FetchHistory
    \/ \E messageId \in 1..(Len(history) + 1), fb \in Feedbacks :
          SubmitFeedback(messageId, fb.is_positive, fb.comment)
    \/ FeedbackAttach
    \/ FeedbackReturn
    \/ FeedbackFail

SpecFeedback == Init /\ [][FeedbackNext]_vars

\* The page's flow, its calls answered, in a session whose history another
\* submission has filled or is filling.
FallbackNext ==
    \/ ApiSubmit(<<"h">>, MaxRequests)
    \/ Submit(MaxServerRequests)
    \/ ServerWork
    \/ ReliableFlowNext

SpecFallback == Init /\ [][FallbackNext]_vars

\* The Job Runner with an LLM Backend that is unreachable and whose caller
\* answers with the text that reports it.
OllamaWork ==
    \E rid \in DOMAIN requestStore :
        \/ WorkBegin(rid)
        \/ WorkComplete(rid, OllamaError)
        \/ WorkAppend(rid)
        \/ WorkResult(rid)

\* The page with its retry button, in a session whose history holds or gets
\* an answer that reports the LLM Backend unreachable.
RetryNext ==
    \/ ApiSubmit(<<"h">>, MaxRequests)
    \/ Submit(MaxServerRequests)
    \/ OllamaWork
    \/ ReliableFlowNext
    \/ ChatFetch
    \/ HandleRetryRequest(MaxServerRequests)

SpecRetry == Init /\ [][RetryNext]_vars

\* A call of the poll loop that is in flight returns or fails.
CallReturns ==
    \/ StatusReturn
    \/ StatusRetryReturn
    \/ EmptyHistoryReturn
    \/ ErrorHistoryReturn
    \/ \E kind \in ErrorKinds, d \in NetDelays : pc \in PollPcs /\ ApiFail(kind, d)

\* The browser runs its timers and every call of the poll loop returns or
\* fails in finite time: the 100 ms timer fires, the 5-second sleep ends, and a call in
\* flight does not stay in flight for ever.
PollFairness ==
    /\ WF_vars(TypingTimerFire)
    /\ WF_vars(\E r \in {k * PollInterval : k \in 1..MaxOutageTicks} \cup {MaxElapsed} : Wake(r))
    /\ WF_vars(CallReturns)

\* One run of the mutationFn, from mutate() to the settling of its promise,
\* against the server: POST chat/start is answered, the calls of the poll
\* loop return or fail.
PollNext ==
    \/ Submit(MaxRequests)
    \/ ServerWork
    \/ \E m \in Messages : TypeMessage(m)
    \/ HandleChatSubmit(MaxSubmissions)
    \/ TypingTimerFire
    \/ StartResponse
    \/ \E r \in {k * PollInterval : k \in 1..MaxOutageTicks} \cup {MaxElapsed} : Wake(r)
    \/ CallReturns

SpecPoll == Init /\ [][PollNext]_vars /\ PollFairness

\* ------------------------------------------------------------------ claims

\* The assistant messages of the history that the unit of work of rid stored.
AssistantMessagesOf(rid) ==
    {i \in DOMAIN history :
        history[i].role = "assistant" /\ history[i].request_id = rid}

IsComplete(rid) ==
    rid \in DOMAIN requestStore /\ requestStore[rid].status = "complete"

\* The history holds the assistant message that answers rid.
HistoryAnswers(rid) ==
    /\ rid \in DOMAIN work
    /\ \E i \in AssistantMessagesOf(rid) : history[i].content = work[rid].answer

ResultMessages(rid) ==
    {i \in DOMAIN history :
        history[i].message_id = requestStore[rid].result.message_id}

C3_StopsOnErrorStatus ==
    statusResponse.status = "error" =>
        /\ pc = "rejected"
        /\ error = statusResponse.error_detail

\* The loop has handled a status response that was complete with an empty or
\* missing result in this step.
HandledEmptyCompletion == emptyRun' = emptyRun + 1

\* The latest assistant message of the history h has content.
LatestAssistantHasContent(h) ==
    \E i \in DOMAIN h :
        /\ h[i].role = "assistant"
        /\ h[i].content # <<>>
        /\ \A j \in DOMAIN h : j > i => h[j].role # "assistant"

\* ans is that message.
IsLatestAssistantOf(ans, h) ==
    \E i \in DOMAIN h :
        /\ h[i].role = "assistant"
        /\ \A j \in DOMAIN h : j > i => h[j].role # "assistant"
        /\ ans.content = h[i].content
        /\ ans.message_id = h[i].message_id

C5_FallbackAfterOutage ==
    [][ ( /\ pc \in {"status", "statusRetry"}
          /\ pc' \notin {"status", "statusRetry"}
          /\ errorSince' # -1
          /\ now' - errorSince' >= GraceWindow + PollInterval
          /\ elapsedTime < MaxElapsed
          /\ LatestAssistantHasContent(history) )
        => pc' = "errorHistory" ]_vars

\* C6 as stated: every status response that is complete with an empty or
\* missing result has been retried once, and when the retried response is
\* still empty the poller reads the history.
C6_RetryThenFallback ==
    [][ HandledEmptyCompletion => (pc = "statusRetry" /\ pc' = "emptyHistory") ]_vars

\* C6 amended: a complete status without a result is fetched again once,
\* one second later, and no other response is; a response that is still
\* empty does not fail the flow: it is counted and polling goes on, and the
\* poller reads the history only when the count has reached three.
C6_RetryOnceThenCount ==
    [][ /\ StatusReturn =>
              IF GetStatus(requestId).status = "complete"
                 /\ ~GetStatus(requestId).result.present
              THEN /\ pc' = "statusRetry"
                   /\ now' = now + 1000
                   /\ consecutiveEmptyResponses' = consecutiveEmptyResponses
              ELSE pc' # "statusRetry"
        /\ StatusRetryReturn => pc' # "statusRetry"
        /\ HandledEmptyCompletion =>
              /\ consecutiveEmptyResponses' = consecutiveEmptyResponses + 1
              /\ pc' = "emptyHistory" <=> consecutiveEmptyResponses' >= 3
              /\ pc' = "rejected" => elapsedTime >= MaxElapsed
              /\ pc' \in {"emptyHistory", "sleep", "rejected"}
      ]_vars

\* C6 witness: the retried status check was still without a result, and the
\* poller went back to sleep with one empty response counted.
C6_Witness ==
    /\ pc = "sleep"
    /\ statusResponse.status = "complete"
    /\ ~statusResponse.result.present
    /\ consecutiveEmptyResponses = 1

\* The status check or history read in flight has ended in this step and
\* control is back at the loop test or past it.
BackAtLoopTest ==
    /\ pc \in {"status", "statusRetry", "emptyHistory", "errorHistory"}
    /\ pc' \in {"sleep", "resolved", "rejected"}

\* C7: when the elapsed time has reached the two-hour limit without a
\* result the poll loop is left with the timeout error, which the page then
\* shows; neither step sends anything to the server, whose unit of work can
\* still complete the request.
C7_TimeoutLeavesRequestRunning ==
    [][ /\ BackAtLoopTest =>
              /\ (elapsedTime >= 7200000 /\ ~isComplete') =>
                    pc' = "rejected" /\ error' = TimeoutMessage
              /\ pc' = "rejected" =>
                    elapsedTime >= 7200000 /\ error' = TimeoutMessage
              /\ UNCHANGED serverVars
        /\ (pc = "rejected" /\ pc' # "rejected") =>
              /\ chatError' = error
              /\ mutationStatus' = "error"
              /\ UNCHANGED serverVars
              /\ requestId' = requestId
              /\ (requestId \in DOMAIN work /\ work[requestId].phase = "llm") =>
                    ENABLED WorkComplete(requestId, <<"a">>)
      ]_vars

\* C7 witness: the flow was shown the timeout error after a last status
\* check that returned processing, and the request has completed since.
C7_Witness ==
    /\ pc = "rejected"
    /\ error = TimeoutMessage
    /\ statusResponse.status = "processing"
    /\ requestStore[requestId].status = "complete"
    /\ requestStore[requestId].result.present

\* C8: the step that stores a ChatRequest produces the response with its
\* request_id while the request is pending and its unit of work has not yet
\* called the LLM; the page is in its poll loop only with the request_id of
\* a successful response, and before the response it has none.
C8_SubmitDoesNotWait ==
    [][ /\ (pc = "start" /\ pc' = "started") =>
              IF Len(requestStore') > Len(requestStore)
              THEN /\ submitResponse' = [ok |-> TRUE, request_id |-> Len(requestStore')]
                   /\ requestStore'[Len(requestStore')].status = "pending"
                   /\ work'[Len(requestStore')].phase = "scheduled"
              ELSE ~submitResponse'.ok
        /\ pc' \in PollPcs =>
              /\ submitResponse'.ok
              /\ requestId' = submitResponse'.request_id
              /\ requestId' \in DOMAIN requestStore'
        /\ pc' \in {"start", "started"} => requestId' = 0
      ]_vars

\* C8 witness: the page holds the request_id and waits for its first poll
\* while the request is still pending.
C8_Witness ==
    /\ pc = "sleep"
    /\ statusResponse = NoStatus
    /\ requestId = 1
    /\ requestStore[1].status = "pending"

\* m has no character other than the blank.
AllBlanks(m) == \A i \in DOMAIN m : m[i] = " "

\* C9: no ChatRequest holds an empty message and none of the page's
\* submissions carries a blank one; a submission of a blank message from the
\* page, or of an empty one from any client, changes neither the Request
\* Store nor the messages of the history, and starts no flow.
C9_BlankRejected ==
    [][ /\ \A rid \in DOMAIN requestStore' :
              requestStore'[rid].submitted_message # <<>>
        /\ pc' # "idle" => ~AllBlanks(message')
        /\ \A i \in DOMAIN chatHistory' :
              chatHistory'[i].role = "user" => ~AllBlanks(chatHistory'[i].content)
        /\ (pc = "idle" /\ AllBlanks(chatMessage)) =>
              /\ pc' = "idle"
              /\ submissions' = submissions
              /\ mutationStatus' = mutationStatus
        /\ ((HandleChatSubmit(MaxSubmissions) /\ AllBlanks(chatMessage)) \/ (rejected' /\ ~rejected)) =>
              UNCHANGED <<serverVars, pageVars, fnVars, submissions>>
      ]_vars

\* C9 witness: the user has typed only blanks, the submission was rejected
\* and both stores are empty.
C9_Witness ==
    /\ chatMessage = <<" ", " ">>
    /\ rejected
    /\ pc = "idle"
    /\ submissions = 0
    /\ requestStore = <<>>
    /\ history = <<>>

C11_TerminalOnce ==
    [][ \A rid \in DOMAIN requestStore :
          /\ rid \in DOMAIN requestStore'
          /\ requestStore'[rid].submitted_message = requestStore[rid].submitted_message
          /\ requestStore[rid].status \in {"complete", "error"} =>
                requestStore'[rid].status = requestStore[rid].status
          /\ requestStore'[rid].status # requestStore[rid].status =>
                /\ work'[rid].phase # work[rid].phase
                /\ UNCHANGED <<pageVars, fnVars>>
                /\ << requestStore[rid].status, requestStore'[rid].status >> \in
                      { <<"pending", "processing">>, <<"processing", "complete">>,
                        <<"processing", "error">> }
      ]_vars

\* C11 witness: one request has ended complete and another in error.
C11_Witness ==
    /\ Len(requestStore) = 2
    /\ requestStore[1].status = "complete"
    /\ work[1].phase = "done"
    /\ requestStore[2].status = "error"

\* C12: while a request is pending its unit of work has not called the LLM,
\* while the LLM call is in progress the request is processing, and a
\* request becomes complete or error only from processing.
C12_ProcessingBeforeLLM ==
    [][ \A rid \in DOMAIN requestStore :
          /\ requestStore[rid].status = "pending" <=> work[rid].phase = "scheduled"
          /\ work[rid].phase = "llm" => requestStore[rid].status = "processing"
          /\ ( /\ requestStore'[rid].status \in {"complete", "error"}
               /\ requestStore[rid].status \notin {"complete", "error"} ) =>
                requestStore[rid].status = "processing" /\ work[rid].phase = "llm"
      ]_vars

\* C12 witness: the LLM call of one request is in progress while another
\* request is still pending.
C12_Witness ==
    /\ Len(requestStore) = 2
    /\ work[1].phase = "llm" /\ requestStore[1].status = "processing"
    /\ work[2].phase = "scheduled" /\ requestStore[2].status = "pending"

C14_SessionStaysUsable ==
    [][ /\ (pc = "start" /\ pc' = "started" /\ Accepts(message)) =>
              /\ Len(requestStore') = Len(requestStore) + 1
              /\ submitResponse'.ok
              /\ submitResponse'.request_id = Len(requestStore')
              /\ requestStore'[Len(requestStore')].status = "pending"
              /\ \A rid \in DOMAIN requestStore : requestStore'[rid] = requestStore[rid]
        /\ ( /\ pc = "idle"
             /\ mutationStatus = "error"
             /\ submissions < MaxServerRequests ) =>
                IF IsBlank(chatMessage)
                THEN ENABLED TypeMessage(<<"h">>)
                ELSE ENABLED (HandleChatSubmit(MaxServerRequests) /\ pc' = "start")
        /\ \A rid \in DOMAIN requestStore :
              /\ work[rid].phase = "scheduled" => ENABLED WorkBegin(rid)
              /\ work[rid].phase = "llm" =>
                    ENABLED (WorkComplete(rid, <<"a">>) /\ requestStore'[rid].status = "complete")
      ]_vars

\* C14 witness: the first request of the session ended in error and the
\* page's flow for it in failure; the page's second submission got request 2,
\* which is complete with its answer.
C14_Witness ==
    /\ submissions = 2
    /\ Len(requestStore) = 2
    /\ requestStore[1].status = "error"
    /\ requestStore[2].status = "complete"
    /\ requestStore[2].result.present
    /\ requestStore[2].result.content = <<"a">>

\* C15: a step of the page (a status check, a history read, a sleep, giving
\* up at the time limit, the end of a flow, reset, dismiss, the chat query)
\* leaves every ChatRequest and its unit of work as they are, and the history
\* too; the page's POST only adds a request and its user message.  A step of
\* a unit of work changes nothing of the page, and a unit of work whose LLM
\* call is in progress can always end it, whatever state the page is in.
C15_ClientOnlyReads ==
    [][ /\ (<<pageVars, fnVars>>' # <<pageVars, fnVars>>) =>
              /\ \A rid \in DOMAIN requestStore :
                    /\ rid \in DOMAIN requestStore'
                    /\ requestStore'[rid] = requestStore[rid]
                    /\ work'[rid] = work[rid]
              /\ IF pc = "start" /\ pc' = "started"
                 THEN \/ UNCHANGED serverVars
                      \/ /\ Len(requestStore') = Len(requestStore) + 1
                         /\ history' = Append(history, history'[Len(history')])
                         /\ history'[Len(history')].role = "user"
                 ELSE UNCHANGED serverVars
        /\ (\E rid \in DOMAIN work : work'[rid] # work[rid]) =>
              UNCHANGED <<pageVars, fnVars>>
        /\ \A rid \in DOMAIN work :
              work[rid].phase = "llm" =>
                  /\ ENABLED (WorkComplete(rid, <<"a">>) /\ requestStore'[rid].status = "complete")
                  /\ ENABLED WorkFail(rid)
      ]_vars

\* C15 witness: the poller gave up at the time limit while the request had
\* no result, the page shows the timeout text, and the unit of work has gone
\* on to write the answer.
C15_Witness ==
    /\ pc = "idle"
    /\ chatError = TimeoutMessage
    /\ requestId \in DOMAIN requestStore
    /\ requestStore[requestId].status = "complete"
    /\ requestStore[requestId].result.present
    /\ requestStore[requestId].result.content = <<"a">>
    /\ work[requestId].phase = "done"

\* C16 as stated: resetChat turns the typing flag off, clears the error and
\* removes every typing placeholder, keeping the other messages in their
\* order and the server's state; and when the chat query it invalidated has
\* fetched, with no flow running, the displayed history is the history of the
\* Chat History Store.
C16_ResetResynchronizes ==
    [][ /\ ResetChat =>
              /\ ~isTyping'
              /\ chatError' = NoError
              /\ \A i \in DOMAIN chatHistory' : ~IsPlaceholder(chatHistory'[i])
              /\ chatHistory' = SelectSeq(chatHistory, LAMBDA m : ~IsPlaceholder(m))
              /\ chatStale'
              /\ UNCHANGED serverVars
        /\ (ChatFetch /\ chatData.loaded /\ pc = "idle") => chatHistory' = GetHistory
      ]_vars

\* A typing placeholder is displayed.
PlaceholderShown == \E i \in DOMAIN chatHistory : IsPlaceholder(chatHistory[i])

\* C17 as stated: the mutation goes idle -> pending -> success or error and
\* from an end state only to pending again; the step to pending shows the
\* user's message last; the step to success appends the assistant's answer
\* with the typing flag off and no error set, the step to error sets the
\* error text with the typing flag off; and once the flow has ended the
\* typing flag stays off and no typing placeholder is displayed, until the
\* next submission.
C17_FlowStateMachine ==
    [][ /\ mutationStatus' # mutationStatus =>
              << mutationStatus, mutationStatus' >> \in
                  { <<"idle", "pending">>, <<"pending", "success">>,
                    <<"pending", "error">>, <<"success", "pending">>,
                    <<"error", "pending">> }
        /\ (mutationStatus # "pending" /\ mutationStatus' = "pending") =>
              /\ chatHistory' = Append(chatHistory, chatHistory'[Len(chatHistory')])
              /\ chatHistory'[Len(chatHistory')].role = "user"
              /\ chatHistory'[Len(chatHistory')].content = message'
              /\ isTyping'
        /\ (mutationStatus = "pending" /\ mutationStatus' = "success") =>
              /\ chatHistory'[Len(chatHistory')].role = "assistant"
              /\ chatHistory'[Len(chatHistory')].content = data'.content
              /\ ~IsPlaceholder(chatHistory'[Len(chatHistory')])
              /\ ~isTyping'
              /\ chatError' = NoError
        /\ (mutationStatus = "pending" /\ mutationStatus' = "error") =>
              /\ chatError' # NoError
              /\ ~isTyping'
        /\ mutationStatus' \in {"success", "error"} =>
              /\ ~isTyping'
              /\ ~PlaceholderShown'
      ]_vars

\* C18: a call is sent at most twice; it is sent again only after its first
\* attempt failed with a network error, a timeout or a 5xx response, and then
\* it is; a call whose attempt failed with a 4xx response, a request to
\* /auth/me, and a call already sent twice are rejected without another
\* attempt.
C18_RetryOnce ==
    [][ /\ apiCall'.attempts <= 2
        /\ (apiCall'.attempts > apiCall.attempts /\ apiCall.attempts > 0) =>
              /\ apiCall.attempts = 1
              /\ apiCall'.attempts = 2
              /\ apiCall.failed \in {"network", "timeout", "http5xx"}
              /\ apiCall.url # AuthMeUrl
              /\ apiCall'.url = apiCall.url
        /\ (apiCall.state = "inflight" /\ apiCall'.state = "rejected") =>
              \/ apiCall'.failed = "http4xx"
              \/ apiCall.url = AuthMeUrl
              \/ apiCall.attempts = 2
        /\ (apiCall.state = "inflight" /\ apiCall'.state = "retrying") =>
              /\ apiCall.attempts = 1
              /\ apiCall'.failed \in {"network", "timeout", "http5xx"}
              /\ apiCall.url # AuthMeUrl
        /\ apiCall.state = "retrying" => ENABLED ApiResend
      ]_vars

\* C18 witness: a chat call failed with a timeout, was sent again, and the
\* second attempt failed with a 5xx response and was rejected.
C18_Witness ==
    /\ apiCall.state = "rejected"
    /\ apiCall.url = ChatUrl
    /\ apiCall.attempts = 2
    /\ apiCall._retry
    /\ apiCall.failed = "http5xx"

IsFeedbackTarget(msg) == msg.message_id = feedbackCall.messageId

Appends(rid) == work[rid].phase = "flipped" /\ work'[rid].phase = "appended"

HandlesStatus ==
    /\ pc \in {"status", "statusRetry"}
    /\ pc' \notin {pc, "statusRetry"}
    /\ errorSince' = -1
    /\ statusResponse'.found

\* The response handled is complete with an empty or missing result.
EmptyCompletion(resp) == resp.status = "complete" /\ ~HasContent(resp)

StatusCheckFails ==
    /\ pc \in {"status", "statusRetry"}
    /\ pc' \notin {pc, "statusRetry"}
    /\ errorSince' # -1

InHistoryBeforeSubmission ==
    {i \in DOMAIN history :
        \E j \in DOMAIN history :
            /\ i < j
            /\ history[j].role = "user"
            /\ history[j].request_id = requestId}

\* C24: the answer the poller resolves with is the assistant message
\* produced for the request it submitted, not an assistant message that the
\* history held before that request was submitted.
C24_ResolvesWithOwnAnswer ==
    pc = "resolved" =>
        \A i \in InHistoryBeforeSubmission :
            history[i].message_id # result.message_id

\* C25: the server holds at most one ChatRequest for each submission the
\* user has made, whatever happened to the attempts of POST chat/start.
C25_OneRequestPerSubmission ==
    Len(requestStore) <= submissions

\* C26: when the send-message flow has settled, onSuccess or onError having
\* run, and no flow is in flight, the displayed history holds no
\* typing-indicator placeholder.
C26_NoPlaceholderOnceSettled ==
    (mutationStatus \in {"success", "error"} /\ pc = "idle") =>
        \A i \in DOMAIN chatHistory : ~IsPlaceholder(chatHistory[i])

\* C27: while a send-message flow is pending no step of the page starts
\* another submission, so no second poll loop is started beside the one that
\* runs.
C27_NoSubmissionWhilePending ==
    [][isPending => submissions' = submissions]_vars

\* C29: a step that starts a submission shows, as the last message of the
\* displayed history, a user message whose content is the message sent to
\* the server.
C29_OptimisticMessageIsSent ==
    [][submissions' # submissions =>
          /\ chatHistory' # <<>>
          /\ chatHistory'[Len(chatHistory')].role = "user"
          /\ chatHistory'[Len(chatHistory')].content = message']_vars

\* A manual reset is performed in this step while the poll loop runs: only
\* resetChat turns the typing flag off inside the loop.
ResetWhilePolling == pc \in PollPcs /\ isTyping /\ ~isTyping'

\* C28: a manual reset performed while a request is polled stops the poll
\* loop and enables the send control at once, and after it the loop adds no
\* placeholder to the displayed history.
C28_ResetStopsPolling ==
    [][ /\ ResetWhilePolling => (pc' \notin PollPcs /\ ~isPending')
        /\ (pc \in PollPcs /\ ~isTyping) =>
              \A i \in DOMAIN chatHistory' : ~IsPlaceholder(chatHistory'[i])
      ]_vars

\* The poll loop has ended: with a result that has content, or with the
\* timeout error at the time limit.
PollEnded ==
    \/ pc = "resolved" /\ isComplete /\ result.content # <<>>
    \/ pc = "rejected" /\ error = TimeoutMessage /\ elapsedTime >= MaxElapsed

\* C30: when every call returns or fails in finite time, a flow that is in
\* its poll loop eventually leaves it, resolving with a result that has
\* content or failing with the timeout error at the 2-hour limit.
C30_PollLoopEnds ==
    (pc \in PollPcs) ~> PollEnded

\* C30 witness: the loop has ended with the timeout error at the time limit,
\* its last status check answered with a status that is not complete.
C30_Witness ==
    /\ pc = "rejected"
    /\ error = TimeoutMessage
    /\ elapsedTime >= MaxElapsed
    /\ statusResponse.found
    /\ statusResponse.status # "complete"

====
